---- MODULE Spec2Model ----
(***************************************************************************)
(* Model of pkg/controller/workspace/tfcloud.go: the Terraform Cloud       *)
(* client of the workspace controller.  The backend (organization-scoped   *)
(* workspaces, each owning a list of variables) is the shared state; every *)
(* call of t.Client.* is one atomic step that either succeeds or fails.    *)
(* An action performs one remote call and the local computation that       *)
(* follows it up to the next remote call or the return.                    *)
(***************************************************************************)
EXTENDS Integers, Sequences, FiniteSets, TLC

VARIABLES
    workspaces,     \* backend: workspace name -> [ID, AutoApply]; ID = 0: absent
    variables,      \* backend: workspace name -> sequence of tfc.Variable
    nextID,         \* backend: next identifier it assigns
    faults,         \* remote calls that may still fail (network, auth, ...)
    invocations,    \* entry points invoked so far
    specVariables,  \* the desired variables of the Workspace resource
    proc,           \* per caller: position and locals of the running entry point
    prev            \* per caller: entry point and result of the previous invocation

vars == <<workspaces, variables, nextID, faults, invocations, specVariables, proc, prev>>

----------------------------------------------------------------------------
\* Bounds of the model.
MaxDesired == 2
MaxRemote == 2
MaxFailures == 1
MaxInvocations == 2

\* Package-level values of tfcloud.go.
PageSize == 500
TerraformVariable == "terraform"
EnvironmentVariable == "env"
Sensitive == FALSE
AutoApply_off == FALSE
AutoApply == TRUE

\* Errors.
NoError == "nil"
ErrResourceNotFound == "ErrResourceNotFound"
Failures == {"ErrUnauthorized"}

Procs == {1, 2}
MainWorkspace == "my-workspace"
OtherWorkspace == "other-workspace"
WorkspaceNames == {MainWorkspace, OtherWorkspace}

Keys == {"hello", "AWS_SECRET_ACCESS_KEY"}
Values == {"", "old"}
Categories == {TerraformVariable, EnvironmentVariable}

----------------------------------------------------------------------------
\* Helpers on sequences.
Range(s) == {s[i] : i \in 1..Len(s)}
KeysOf(s) == {s[i].Key : i \in 1..Len(s)}
SeqsUpTo(S, n) == UNION {[1..k -> S] : k \in 0..n}
Min(a, b) == IF a < b THEN a ELSE b

\* find: the index (from 0) of the first variable with the key, or -1.
\* The loop is over a list that may be as long as a page of the listing.
findFrom(tfcVariables, key, index) ==
    LET hits == {i \in index..(Len(tfcVariables) - 1) : tfcVariables[i + 1].Key = key}
    IN  IF hits = {} THEN -1
        ELSE CHOOSE i \in hits : \A h \in hits : i <= h

\* A find that starts at the second variable.
find_skipFirst(tfcVariables, key) == findFrom(tfcVariables, key, 1)

find(tfcVariables, key) == findFrom(tfcVariables, key, 0)

\* A conversion that fills the key from the value.
changeTypeToTFCVariable_valueAsKey(specVars) ==
    [i \in 1..Len(specVars) |->
        [ID |-> 0, Key |-> specVars[i].Value, Value |-> specVars[i].Value,
         Sensitive |-> specVars[i].Sensitive, Category |-> ""]]

\* changeTypeToTFCVariable: key, value and sensitive are copied; the
\* identifier and the category keep their zero values.
changeTypeToTFCVariable(specVars) ==
    [i \in 1..Len(specVars) |->
        [ID |-> 0, Key |-> specVars[i].Key, Value |-> specVars[i].Value,
         Sensitive |-> specVars[i].Sensitive, Category |-> ""]]

----------------------------------------------------------------------------
\* The backend, as the calls of tfcloud.go see it.  Each operator gives the
\* set of results the call can have in the current state.

FaultErrors == IF faults > 0 THEN Failures ELSE {}

\* t.Client.Workspaces.Read
WorkspacesRead(name) ==
    {[err |-> e, ID |-> 0, fault |-> 1] : e \in FaultErrors}
    \cup (IF workspaces[name].ID = 0
          THEN {[err |-> ErrResourceNotFound, ID |-> 0, fault |-> 0]}
          ELSE {[err |-> NoError, ID |-> workspaces[name].ID, fault |-> 0]})

\* The value of a sensitive variable is never returned by the backend.
Redacted(v) == IF v.Sensitive THEN [v EXCEPT !.Value = ""] ELSE v

\* A listing of the organization's variables, whatever the workspace.
VariablesList_anyWorkspace(name) ==
    {[err |-> NoError, fault |-> 0,
      Items |-> LET all == variables[MainWorkspace] \o variables[OtherWorkspace]
                IN  [i \in 1..Min(Len(all), PageSize) |-> Redacted(all[i])]]}

\* t.Client.Variables.List with ListOptions{PageSize}: the first page.
VariablesList(name) ==
    {[err |-> e, Items |-> <<>>, fault |-> 1] : e \in FaultErrors}
    \cup (IF workspaces[name].ID = 0
          THEN {[err |-> ErrResourceNotFound, Items |-> <<>>, fault |-> 0]}
          ELSE {[err |-> NoError, fault |-> 0,
                 Items |-> [i \in 1..Min(Len(variables[name]), PageSize) |->
                               Redacted(variables[name][i])]]})

VariableIDs == UNION {{variables[w][i].ID : i \in 1..Len(variables[w])} : w \in WorkspaceNames}

WithoutID(s, id) == LET Keep(v) == v.ID # id IN SelectSeq(s, Keep)

\* t.Client.Variables.Delete
VariablesDelete(id) ==
    {[err |-> e, variables |-> variables, fault |-> 1] : e \in FaultErrors}
    \cup (IF id \in VariableIDs
          THEN {[err |-> NoError, fault |-> 0,
                 variables |-> [w \in WorkspaceNames |-> WithoutID(variables[w], id)]]}
          ELSE {[err |-> ErrResourceNotFound, variables |-> variables, fault |-> 0]})

WithUpdate(s, id, key, value) ==
    [i \in 1..Len(s) |->
        IF s[i].ID = id THEN [s[i] EXCEPT !.Key = key, !.Value = value] ELSE s[i]]

\* t.Client.Variables.Update with VariableUpdateOptions{Key, Value}
VariablesUpdate(id, key, value) ==
    {[err |-> e, variables |-> variables, fault |-> 1] : e \in FaultErrors}
    \cup (IF id \in VariableIDs
          THEN {[err |-> NoError, fault |-> 0,
                 variables |-> [w \in WorkspaceNames |->
                                  WithUpdate(variables[w], id, key, value)]]}
          ELSE {[err |-> ErrResourceNotFound, variables |-> variables, fault |-> 0]})

\* Whether the workspace already holds a variable of that key and category.
KeyTaken(wsID, key, category) ==
    \E w \in WorkspaceNames :
        /\ workspaces[w].ID = wsID
        /\ \E i \in 1..Len(variables[w]) :
              variables[w][i].Key = key /\ variables[w][i].Category = category

\* t.Client.Variables.Create with VariableCreateOptions{Key, Value, Category,
\* Sensitive, Workspace}: the variable is appended under a fresh identifier.
\* Whether the backend refuses a key it already holds in that category is
\* not decided by the client: both outcomes are possible.
VariablesCreate(wsID, key, value, category, sensitive) ==
    {[err |-> e, ID |-> 0, variables |-> variables, fault |-> 1] : e \in FaultErrors}
    \cup (IF KeyTaken(wsID, key, category)
          THEN {[err |-> "ErrKeyTaken", ID |-> 0, variables |-> variables, fault |-> 0]}
          ELSE {})
    \cup (IF wsID # 0 /\ \E w \in WorkspaceNames : workspaces[w].ID = wsID
          THEN {[err |-> NoError, ID |-> nextID, fault |-> 0,
                 variables |->
                    [w \in WorkspaceNames |->
                        IF workspaces[w].ID = wsID
                        THEN Append(variables[w],
                                    [ID |-> nextID, Key |-> key, Value |-> value,
                                     Sensitive |-> sensitive, Category |-> category])
                        ELSE variables[w]]]}
          ELSE {[err |-> ErrResourceNotFound, ID |-> 0, variables |-> variables,
                 fault |-> 0]})

\* t.Client.Workspaces.Create with WorkspaceCreateOptions{AutoApply, Name}
WorkspacesCreate(name, autoApply) ==
    {[err |-> e, ID |-> 0, fault |-> 1] : e \in FaultErrors}
    \cup (IF workspaces[name].ID = 0
          THEN {[err |-> NoError, ID |-> nextID, fault |-> 0]}
          ELSE {[err |-> "ErrNameTaken", ID |-> 0, fault |-> 0]})

\* t.Client.Workspaces.Delete
WorkspacesDelete(name) ==
    {[err |-> e, fault |-> 1] : e \in FaultErrors}
    \cup (IF workspaces[name].ID = 0
          THEN {[err |-> ErrResourceNotFound, fault |-> 0]}
          ELSE {[err |-> NoError, fault |-> 0]})

----------------------------------------------------------------------------
\* The record of one remote call, kept per invocation.
Call(call, id, key, value, category, sensitive, err) ==
    [call |-> call, id |-> id, key |-> key, value |-> value,
     category |-> category, sensitive |-> sensitive, autoApply |-> FALSE, err |-> err]

WorkspaceCall(call, id, name, autoApply, err) ==
    [call |-> call, id |-> id, key |-> name, value |-> "",
     category |-> "", sensitive |-> FALSE, autoApply |-> autoApply, err |-> err]

Mutating == {"Variables.Delete", "Variables.Create", "Variables.Update",
             "Workspaces.Create", "Workspaces.Delete"}
VariableCalls == {"Variables.Delete", "Variables.Create", "Variables.Update"}

CallsOf(p, kinds) == LET In(c) == c.call \in kinds IN SelectSeq(proc[p].calls, In)

----------------------------------------------------------------------------
\* CheckVariables, lines 97-121: the position of the next remote call.
\* First loop: the next listed variable whose key is not in the spec.
\* A first loop that deletes nothing.
NextStale_none(workspaceVariables, specTFCVariables, i) == Len(workspaceVariables) + 1

RECURSIVE NextStale(_, _, _)
NextStale(workspaceVariables, specTFCVariables, i) ==
    IF i > Len(workspaceVariables) THEN i
    ELSE IF find(specTFCVariables, workspaceVariables[i].Key) < 0 THEN i
    ELSE NextStale(workspaceVariables, specTFCVariables, i + 1)

\* A second loop that updates every matched spec variable.
NeedsUpdate_always(v, listed) == TRUE

\* Line 115: whether a spec variable matched to a listed one is updated.
\* A comparison that also looks at the sensitive flag.
NeedsUpdate_flags(v, listed) ==
    v.Value # listed.Value \/ v.Sensitive # listed.Sensitive

NeedsUpdate(v, listed) == v.Value # listed.Value

\* A second loop that takes the spec variables from the end of the list.
NextChange_last(specTFCVariables, workspaceVariables, j) ==
    LET changes == {k \in j..Len(specTFCVariables) :
                       LET index == find(workspaceVariables, specTFCVariables[k].Key)
                       IN  \/ index < 0
                           \/ NeedsUpdate(specTFCVariables[k], workspaceVariables[index + 1])}
    IN  IF changes = {} THEN Len(specTFCVariables) + 1
        ELSE CHOOSE k \in changes : \A h \in changes : h <= k

\* Second loop: the next spec variable that is created or updated.
RECURSIVE NextChange(_, _, _)
NextChange(specTFCVariables, workspaceVariables, j) ==
    IF j > Len(specTFCVariables) THEN j
    ELSE LET index == find(workspaceVariables, specTFCVariables[j].Key)
         IN  IF index < 0 THEN j
             ELSE IF NeedsUpdate(specTFCVariables[j], workspaceVariables[index + 1]) THEN j
             ELSE NextChange(specTFCVariables, workspaceVariables, j + 1)

\* A CheckVariables whose second loop runs before its first.
CheckVariablesNext_applyFirst(specTFCVariables, workspaceVariables, pc, from) ==
    LET first == pc = "cv_delete" /\ from = 1
        j == NextChange(specTFCVariables, workspaceVariables,
                        IF first THEN 1
                        ELSE IF pc = "cv_apply" THEN from
                        ELSE Len(specTFCVariables) + 1)
        i == NextStale(workspaceVariables, specTFCVariables,
                       IF pc = "cv_delete" /\ ~first THEN from ELSE 1)
    IN  IF j <= Len(specTFCVariables) THEN [pc |-> "cv_apply", idx |-> j]
        ELSE IF i <= Len(workspaceVariables) THEN [pc |-> "cv_delete", idx |-> i]
        ELSE [pc |-> "done", idx |-> 0]

\* Where CheckVariables goes from position `from` of loop `pc`.
CheckVariablesNext(specTFCVariables, workspaceVariables, pc, from) ==
    LET i == IF pc = "cv_delete"
             THEN NextStale(workspaceVariables, specTFCVariables, from)
             ELSE Len(workspaceVariables) + 1
        j == NextChange(specTFCVariables, workspaceVariables,
                        IF pc = "cv_delete" THEN 1 ELSE from)
    IN  IF i <= Len(workspaceVariables) THEN [pc |-> "cv_delete", idx |-> i]
        ELSE IF j <= Len(specTFCVariables) THEN [pc |-> "cv_apply", idx |-> j]
        ELSE [pc |-> "done", idx |-> 0]

\* A caller that goes on after a failed call.
AfterCall_ignore(err, next) == next

\* `if err != nil { return err }` after a remote call of CheckVariables.
AfterCall(err, next) == IF err # NoError THEN [pc |-> "done", idx |-> 0] ELSE next

\* A resolver that creates the workspace on any read error.
CreatesOnMiss_anyError(err) == err # NoError

\* CheckWorkspace, line 62: the read error on which the workspace is created.
CreatesOnMiss(err) == err = ErrResourceNotFound

----------------------------------------------------------------------------
\* Entry points.  A caller invokes one entry point at a time.
Idle(p) == proc[p].pc \in {"idle", "done"}

Start(p, op, pc) ==
    /\ Idle(p)
    /\ proc' = [proc EXCEPT ![p] =
                  [pc |-> pc, op |-> op, workspace |-> proc[p].workspace,
                   tfcWorkspace |-> 0, workspaceVariables |-> <<>>, idx |-> 0,
                   err |-> NoError, id |-> 0, calls |-> <<>>,
                   before |-> variables[proc[p].workspace],
                   beforeWorkspace |-> workspaces[proc[p].workspace],
                   concurrent |-> \E q \in Procs \ {p} :
                                     proc[q].pc \notin {"idle", "done", "off"}]]
    /\ prev' = [prev EXCEPT ![p] =
                  [op |-> proc[p].op, err |-> proc[p].err,
                   created |-> \E i \in 1..Len(proc[p].calls) :
                                  /\ proc[p].calls[i].call = "Workspaces.Create"
                                  /\ proc[p].calls[i].err = NoError]]
    /\ invocations' = Min(invocations + 1, MaxInvocations)
    /\ UNCHANGED <<workspaces, variables, nextID, faults, specVariables>>

StartCheckVariables(p) == Start(p, "CheckVariables", "cv_read")
StartCheckWorkspace(p) == Start(p, "CheckWorkspace", "cw_read")
StartCreateTerraformVariables(p) == Start(p, "CreateTerraformVariables", "ctv_read")
StartDeleteWorkspace(p) == Start(p, "DeleteWorkspace", "dw_delete")

Logged(p, c) == Append(proc[p].calls, c)

\* CheckVariables, lines 89-92.
CheckVariablesRead(p) ==
    /\ proc[p].pc = "cv_read"
    /\ \E r \in WorkspacesRead(proc[p].workspace) :
        /\ faults' = faults - r.fault
        /\ proc' = [proc EXCEPT ![p] =
              [@ EXCEPT !.calls = Logged(p, WorkspaceCall("Workspaces.Read", r.ID,
                                               proc[p].workspace, FALSE, r.err)),
                        !.tfcWorkspace = r.ID,
                        !.err = r.err,
                        !.pc = AfterCall(r.err, [pc |-> "cv_list", idx |-> 0]).pc]]
    /\ UNCHANGED <<workspaces, variables, nextID, invocations, specVariables, prev>>

\* CheckVariables, lines 93-96, and listVariables.
CheckVariablesList(p) ==
    /\ proc[p].pc = "cv_list"
    /\ \E r \in VariablesList(proc[p].workspace) :
        LET next == CheckVariablesNext(changeTypeToTFCVariable(specVariables),
                                       r.Items, "cv_delete", 1)
        IN  /\ faults' = faults - r.fault
            /\ proc' = [proc EXCEPT ![p] =
                  [@ EXCEPT !.calls = Logged(p, WorkspaceCall("Variables.List", 0,
                                                   proc[p].workspace, FALSE, r.err)),
                            !.workspaceVariables = r.Items,
                            !.err = r.err,
                            !.pc = AfterCall(r.err, next).pc,
                            !.idx = AfterCall(r.err, next).idx]]
    /\ UNCHANGED <<workspaces, variables, nextID, invocations, specVariables, prev>>

\* CheckVariables, lines 97-105, and DeleteVariable.
CheckVariablesDelete(p) ==
    /\ proc[p].pc = "cv_delete"
    /\ LET v == proc[p].workspaceVariables[proc[p].idx]
           next == CheckVariablesNext(changeTypeToTFCVariable(specVariables),
                                      proc[p].workspaceVariables, "cv_delete",
                                      proc[p].idx + 1)
       IN  \E r \in VariablesDelete(v.ID) :
            /\ faults' = faults - r.fault
            /\ variables' = r.variables
            /\ proc' = [proc EXCEPT ![p] =
                  [@ EXCEPT !.calls = Logged(p, Call("Variables.Delete", v.ID, v.Key,
                                                   "", "", FALSE, r.err)),
                            !.err = r.err,
                            !.pc = AfterCall(r.err, next).pc,
                            !.idx = AfterCall(r.err, next).idx]]
    /\ UNCHANGED <<workspaces, nextID, invocations, specVariables, prev>>

\* CheckVariables, lines 106-114, and CreateTerraformVariable.
CheckVariablesCreate(p) ==
    /\ proc[p].pc = "cv_apply"
    /\ LET specTFCVariables == changeTypeToTFCVariable(specVariables)
           v == specTFCVariables[proc[p].idx]
           next == CheckVariablesNext(specTFCVariables, proc[p].workspaceVariables,
                                      "cv_apply", proc[p].idx + 1)
       IN  /\ find(proc[p].workspaceVariables, v.Key) < 0
           /\ \E r \in VariablesCreate(proc[p].tfcWorkspace, v.Key, v.Value,
                                       TerraformVariable, Sensitive) :
                /\ faults' = faults - r.fault
                /\ variables' = r.variables
                /\ nextID' = IF r.err = NoError THEN nextID + 1 ELSE nextID
                /\ proc' = [proc EXCEPT ![p] =
                      [@ EXCEPT !.calls = Logged(p, Call("Variables.Create", r.ID, v.Key, v.Value,
                                                       TerraformVariable, Sensitive, r.err)),
                                !.err = r.err,
                                !.pc = AfterCall(r.err, next).pc,
                                !.idx = AfterCall(r.err, next).idx]]
    /\ UNCHANGED <<workspaces, invocations, specVariables, prev>>

\* CheckVariables, lines 115-120, and UpdateTerraformVariable.
CheckVariablesUpdate(p) ==
    /\ proc[p].pc = "cv_apply"
    /\ LET specTFCVariables == changeTypeToTFCVariable(specVariables)
           v == specTFCVariables[proc[p].idx]
           index == find(proc[p].workspaceVariables, v.Key)
           next == CheckVariablesNext(specTFCVariables, proc[p].workspaceVariables,
                                      "cv_apply", proc[p].idx + 1)
       IN  /\ index >= 0
           /\ LET variable == proc[p].workspaceVariables[index + 1]
              IN  \E r \in VariablesUpdate(variable.ID, variable.Key, v.Value) :
                    /\ faults' = faults - r.fault
                    /\ variables' = r.variables
                    /\ proc' = [proc EXCEPT ![p] =
                          [@ EXCEPT !.calls = Logged(p, Call("Variables.Update", variable.ID,
                                                           variable.Key, v.Value, "", FALSE,
                                                           r.err)),
                                    !.err = r.err,
                                    !.pc = AfterCall(r.err, next).pc,
                                    !.idx = AfterCall(r.err, next).idx]]
    /\ UNCHANGED <<workspaces, nextID, invocations, specVariables, prev>>

\* CheckWorkspace, lines 61-62 and 68-71.
CheckWorkspaceRead(p) ==
    /\ proc[p].pc = "cw_read"
    /\ \E r \in WorkspacesRead(proc[p].workspace) :
        /\ faults' = faults - r.fault
        /\ proc' = [proc EXCEPT ![p] =
              [@ EXCEPT !.calls = Logged(p, WorkspaceCall("Workspaces.Read", r.ID,
                                               proc[p].workspace, FALSE, r.err)),
                        !.err = IF CreatesOnMiss(r.err) THEN NoError ELSE r.err,
                        !.id = r.ID,
                        !.pc = IF CreatesOnMiss(r.err) THEN "cw_create" ELSE "done"]]
    /\ UNCHANGED <<workspaces, variables, nextID, invocations, specVariables, prev>>

\* CheckWorkspace, lines 63-67, and CreateWorkspace.
CheckWorkspaceCreate(p) ==
    /\ proc[p].pc = "cw_create"
    /\ \E r \in WorkspacesCreate(proc[p].workspace, AutoApply) :
        /\ faults' = faults - r.fault
        /\ workspaces' = IF r.err = NoError
                         THEN [workspaces EXCEPT ![proc[p].workspace] =
                                  [ID |-> r.ID, AutoApply |-> AutoApply]]
                         ELSE workspaces
        /\ nextID' = IF r.err = NoError THEN nextID + 1 ELSE nextID
        /\ proc' = [proc EXCEPT ![p] =
              [@ EXCEPT !.calls = Logged(p, WorkspaceCall("Workspaces.Create", r.ID,
                                               proc[p].workspace, AutoApply, r.err)),
                        !.err = r.err,
                        !.id = r.ID,
                        !.pc = "done"]]
    /\ UNCHANGED <<variables, invocations, specVariables, prev>>

\* A loop that steps over every other spec variable.
CreateTerraformVariablesNext_skip(specVars, err, idx) ==
    IF err # NoError \/ idx + 1 >= Len(specVars) THEN [pc |-> "done", idx |-> 0]
    ELSE [pc |-> "ctv_create", idx |-> idx + 2]

\* CreateTerraformVariables: `return err` after a failed call, else the
\* next spec variable of the loop of line 184, idx being the last one done.
CreateTerraformVariablesNext(specVars, err, idx) ==
    IF err # NoError \/ idx = Len(specVars) THEN [pc |-> "done", idx |-> 0]
    ELSE [pc |-> "ctv_create", idx |-> idx + 1]

\* CreateTerraformVariables, lines 180-183.
CreateTerraformVariablesRead(p) ==
    /\ proc[p].pc = "ctv_read"
    /\ \E r \in WorkspacesRead(proc[p].workspace) :
        /\ faults' = faults - r.fault
        /\ proc' = [proc EXCEPT ![p] =
              [@ EXCEPT !.calls = Logged(p, WorkspaceCall("Workspaces.Read", r.ID,
                                               proc[p].workspace, FALSE, r.err)),
                        !.tfcWorkspace = r.ID,
                        !.err = r.err,
                        !.idx = CreateTerraformVariablesNext(specVariables, r.err, 0).idx,
                        !.pc = CreateTerraformVariablesNext(specVariables, r.err, 0).pc]]
    /\ UNCHANGED <<workspaces, variables, nextID, invocations, specVariables, prev>>

\* CreateTerraformVariables, lines 184-197.
CreateTerraformVariablesCreate(p) ==
    /\ proc[p].pc = "ctv_create"
    /\ LET variable == specVariables[proc[p].idx]
       IN  \E r \in VariablesCreate(proc[p].tfcWorkspace, variable.Key, variable.Value,
                                    TerraformVariable, variable.Sensitive) :
            /\ faults' = faults - r.fault
            /\ variables' = r.variables
            /\ nextID' = IF r.err = NoError THEN nextID + 1 ELSE nextID
            /\ proc' = [proc EXCEPT ![p] =
                  [@ EXCEPT !.calls = Logged(p, Call("Variables.Create", r.ID, variable.Key,
                                                   variable.Value, TerraformVariable,
                                                   variable.Sensitive, r.err)),
                            !.err = r.err,
                            !.pc = CreateTerraformVariablesNext(specVariables, r.err,
                                                                proc[p].idx).pc,
                            !.idx = CreateTerraformVariablesNext(specVariables, r.err,
                                                                 proc[p].idx).idx]]
    /\ UNCHANGED <<workspaces, invocations, specVariables, prev>>

\* DeleteWorkspace, lines 139-145.  The backend drops the variables of a
\* workspace with the workspace.
DeleteWorkspace(p) ==
    /\ proc[p].pc = "dw_delete"
    /\ \E r \in WorkspacesDelete(proc[p].workspace) :
        /\ faults' = faults - r.fault
        /\ workspaces' = IF r.err = NoError
                         THEN [workspaces EXCEPT ![proc[p].workspace] =
                                  [ID |-> 0, AutoApply |-> FALSE]]
                         ELSE workspaces
        /\ variables' = IF r.err = NoError
                        THEN [variables EXCEPT ![proc[p].workspace] = <<>>]
                        ELSE variables
        /\ proc' = [proc EXCEPT ![p] =
              [@ EXCEPT !.calls = Logged(p, WorkspaceCall("Workspaces.Delete", 0,
                                               proc[p].workspace, FALSE, r.err)),
                        !.err = r.err,
                        !.pc = "done"]]
    /\ UNCHANGED <<nextID, invocations, specVariables, prev>>

----------------------------------------------------------------------------
\* Initial states.  The desired list has unique keys; as in the sample
\* Workspace resource, hello is declared a Terraform variable that is not
\* sensitive and AWS_SECRET_ACCESS_KEY an environment variable, here
\* sensitive or not.
SpecEntries ==
    {e \in [Key : Keys, Value : Values, Sensitive : BOOLEAN,
            EnvironmentVariable : BOOLEAN] :
        /\ e.EnvironmentVariable = (e.Key = "AWS_SECRET_ACCESS_KEY")
        /\ e.Sensitive => e.Key = "AWS_SECRET_ACCESS_KEY"}

UniqueKeys(s) == \A i, j \in 1..Len(s) : i # j => s[i].Key # s[j].Key

DesiredLists == {s \in SeqsUpTo(SpecEntries, MaxDesired) : UniqueKeys(s)}

\* The backend holds at most one variable per key and category; the same
\* key may exist in both categories.  hello is held as a Terraform variable,
\* AWS_SECRET_ACCESS_KEY as a Terraform variable (as CheckVariables creates
\* it), as an environment variable, or as both.  A sensitive variable holds a
\* value.  The variables are listed by key, the Terraform variable first.
KeyCategories ==
    << [Key |-> "AWS_SECRET_ACCESS_KEY", Category |-> TerraformVariable],
       [Key |-> "AWS_SECRET_ACCESS_KEY", Category |-> EnvironmentVariable],
       [Key |-> "hello", Category |-> TerraformVariable] >>

RemoteContents ==
    {[Value |-> v, Sensitive |-> s] : v \in Values, s \in BOOLEAN} \
        {[Value |-> "", Sensitive |-> TRUE]}

RemoteListOf(present, content) ==
    LET Held(kc) == kc \in present
        kcs == SelectSeq(KeyCategories, Held)
    IN  [i \in 1..Len(kcs) |->
            [Key |-> kcs[i].Key, Value |-> content[kcs[i]].Value,
             Sensitive |-> content[kcs[i]].Sensitive, Category |-> kcs[i].Category]]

RemoteLists ==
    UNION {{RemoteListOf(present, content) : content \in [present -> RemoteContents]} :
              present \in {q \in SUBSET Range(KeyCategories) : Cardinality(q) <= MaxRemote}}

\* The example of the specification's section 8.
ExampleDesired ==
    << [Key |-> "hello", Value |-> "rosemary", Sensitive |-> FALSE,
        EnvironmentVariable |-> FALSE],
       [Key |-> "second_hello", Value |-> "to", Sensitive |-> FALSE,
        EnvironmentVariable |-> FALSE] >>

ExampleActual ==
    << [Key |-> "hello", Value |-> "old", Sensitive |-> FALSE,
        Category |-> TerraformVariable],
       [Key |-> "stale", Value |-> "x", Sensitive |-> FALSE,
        Category |-> TerraformVariable] >>

\* The backend's identifiers: the workspace is 1, its variables 2, 3, ...
WithIDs(s) ==
    [i \in 1..Len(s) |->
        [ID |-> i + 1, Key |-> s[i].Key, Value |-> s[i].Value,
         Sensitive |-> s[i].Sensitive, Category |-> s[i].Category]]

NoWorkspace == [ID |-> 0, AutoApply |-> FALSE]

IdleProc(w) ==
    [pc |-> "idle", op |-> "none", workspace |-> w, tfcWorkspace |-> 0,
     workspaceVariables |-> <<>>, idx |-> 0, err |-> NoError, id |-> 0,
     calls |-> <<>>, before |-> <<>>, beforeWorkspace |-> NoWorkspace,
     concurrent |-> FALSE]

InitBackend ==
    /\ \/ /\ specVariables \in DesiredLists
          /\ workspaces = [w \in WorkspaceNames |-> NoWorkspace]
          /\ variables = [w \in WorkspaceNames |-> <<>>]
          /\ nextID = 1
       \/ /\ workspaces = [w \in WorkspaceNames |->
                             IF w = MainWorkspace THEN [ID |-> 1, AutoApply |-> TRUE]
                             ELSE NoWorkspace]
          /\ \E d \in (DesiredLists \X RemoteLists) \cup {<<ExampleDesired, ExampleActual>>} :
                /\ specVariables = d[1]
                /\ variables = [w \in WorkspaceNames |->
                                  IF w = MainWorkspace THEN WithIDs(d[2]) ELSE <<>>]
                /\ nextID = Len(d[2]) + 2
    /\ faults = MaxFailures
    /\ invocations = 0
    /\ prev = [p \in Procs |-> [op |-> "none", err |-> NoError, created |-> FALSE]]

\* One caller, which invokes the entry points one after the other.
Init ==
    /\ InitBackend
    /\ proc = [p \in Procs |->
                IF p = 1 THEN IdleProc(MainWorkspace)
                ELSE [IdleProc(OtherWorkspace) EXCEPT !.pc = "off"]]

Invoke(p) ==
    /\ invocations < MaxInvocations
    /\ \/ StartCheckVariables(p)
       \/ StartCheckWorkspace(p)
       \/ StartCreateTerraformVariables(p)
       \/ StartDeleteWorkspace(p)

Step(p) ==
    \/ CheckVariablesRead(p)
    \/ CheckVariablesList(p)
    \/ CheckVariablesDelete(p)
    \/ CheckVariablesCreate(p)
    \/ CheckVariablesUpdate(p)
    \/ CheckWorkspaceRead(p)
    \/ CheckWorkspaceCreate(p)
    \/ CreateTerraformVariablesRead(p)
    \/ CreateTerraformVariablesCreate(p)
    \/ DeleteWorkspace(p)

Next == \E p \in Procs : Invoke(p) \/ Step(p)

Spec == Init /\ [][Next]_vars

\* The caller re-invokes CheckVariables with the same desired list for ever,
\* one invocation after the other, on a workspace that exists; the remote
\* calls stop failing once the faults are used up.
InitRetry == Init /\ workspaces[MainWorkspace].ID # 0

NextRetry ==
    \E p \in Procs :
        \/ StartCheckVariables(p)
        \/ CheckVariablesRead(p)
        \/ CheckVariablesList(p)
        \/ CheckVariablesDelete(p)
        \/ CheckVariablesCreate(p)
        \/ CheckVariablesUpdate(p)

SpecRetry == InitRetry /\ [][NextRetry]_vars /\ WF_vars(NextRetry)

\* Two workspaces that exist, with the variables r1 and r2, and a backend
\* whose calls do not fail.
WithIDsFrom(s, base) ==
    [i \in 1..Len(s) |->
        [ID |-> base + i, Key |-> s[i].Key, Value |-> s[i].Value,
         Sensitive |-> s[i].Sensitive, Category |-> s[i].Category]]

InitTwo(d, r1, r2) ==
    /\ specVariables = d
    /\ workspaces = [w \in WorkspaceNames |->
                       [ID |-> IF w = MainWorkspace THEN 1 ELSE 2, AutoApply |-> TRUE]]
    /\ variables = [w \in WorkspaceNames |->
                      IF w = MainWorkspace THEN WithIDsFrom(r1, 2)
                      ELSE WithIDsFrom(r2, 2 + Len(r1))]
    /\ nextID = 3 + Len(r1) + Len(r2)
    /\ faults = 0
    /\ invocations = 0
    /\ prev = [p \in Procs |-> [op |-> "none", err |-> NoError, created |-> FALSE]]

\* One caller populates a workspace without variables by CheckVariables,
\* another populates a second such workspace by CreateTerraformVariables,
\* with the same desired list.  No variable is listed, so CheckVariables
\* neither deletes nor updates.
InitPopulate ==
    /\ \E d \in DesiredLists : InitTwo(d, <<>>, <<>>)
    /\ proc = [p \in Procs |->
                IdleProc(IF p = 1 THEN MainWorkspace ELSE OtherWorkspace)]

NextPopulate ==
    \/ proc[1].pc = "idle" /\ StartCheckVariables(1)
    \/ CheckVariablesRead(1)
    \/ CheckVariablesList(1)
    \/ CheckVariablesCreate(1)
    \/ proc[2].pc = "idle" /\ StartCreateTerraformVariables(2)
    \/ CreateTerraformVariablesRead(2)
    \/ CreateTerraformVariablesCreate(2)

SpecPopulate == InitPopulate /\ [][NextPopulate]_vars

\* A workspace that holds one variable more than a page of the listing:
\* a variable whose desired value differs, variables that are not desired
\* up to the end of the page, and after the page a variable that is
\* desired.  One caller runs CheckVariables once.
StaleKey(i) == "stale_" \o ToString(i)

OverPage ==
    [i \in 1..(PageSize + 1) |->
        [Key |-> IF i = 1 THEN "AWS_SECRET_ACCESS_KEY"
                 ELSE IF i = PageSize + 1 THEN "hello" ELSE StaleKey(i),
         Value |-> "old", Sensitive |-> FALSE, Category |-> TerraformVariable]]

PageDesired ==
    << [Key |-> "AWS_SECRET_ACCESS_KEY", Value |-> "", Sensitive |-> FALSE,
        EnvironmentVariable |-> TRUE],
       [Key |-> "hello", Value |-> "old", Sensitive |-> FALSE,
        EnvironmentVariable |-> FALSE] >>

InitPage ==
    /\ InitTwo(PageDesired, OverPage, <<>>)
    /\ proc = [p \in Procs |->
                IF p = 1 THEN IdleProc(MainWorkspace)
                ELSE [IdleProc(OtherWorkspace) EXCEPT !.pc = "off"]]

NextPage ==
    \E p \in Procs :
        \/ proc[p].pc = "idle" /\ StartCheckVariables(p)
        \/ CheckVariablesRead(p)
        \/ CheckVariablesList(p)
        \/ CheckVariablesDelete(p)
        \/ CheckVariablesCreate(p)
        \/ CheckVariablesUpdate(p)

SpecPage == InitPage /\ [][NextPage]_vars

\* Two callers run CheckVariables once each, at the same time, on different
\* workspaces; every interleaving of their remote calls is a behaviour.
OtherRemoteLists == {r \in RemoteLists : Len(r) <= 1}

InitDifferent ==
    /\ \E d \in DesiredLists, r1 \in RemoteLists, r2 \in OtherRemoteLists :
          InitTwo(d, r1, r2)
    /\ proc = [p \in Procs |->
                IdleProc(IF p = 1 THEN MainWorkspace ELSE OtherWorkspace)]

NextConcurrent ==
    \E p \in Procs :
        \/ proc[p].pc = "idle" /\ StartCheckVariables(p)
        \/ CheckVariablesRead(p)
        \/ CheckVariablesList(p)
        \/ CheckVariablesDelete(p)
        \/ CheckVariablesCreate(p)
        \/ CheckVariablesUpdate(p)

SpecDifferent == InitDifferent /\ [][NextConcurrent]_vars

\* Two callers run CheckVariables once each on the same workspace, with
\* nothing that keeps the second from starting before the first is over.
InitSame ==
    /\ \E d \in DesiredLists, r \in RemoteLists : InitTwo(d, r, <<>>)
    /\ proc = [p \in Procs |-> IdleProc(MainWorkspace)]

SpecSame == InitSame /\ [][NextConcurrent]_vars

----------------------------------------------------------------------------
\* Vocabulary of the properties.
Done(p, op) == proc[p].pc = "done" /\ proc[p].op = op
Succeeded(p, op) == Done(p, op) /\ proc[p].err = NoError
Remote(p) == variables[proc[p].workspace]
Listed(p) == proc[p].workspaceVariables
DesiredValue(key) == (CHOOSE j \in 1..Len(specVariables) : specVariables[j].Key = key)
MutatingCalls(p) == CallsOf(p, Mutating)
\* The listed variable a desired key is matched to: the first of that key.
FirstListed(p, key) ==
    CHOOSE i \in 1..Len(Listed(p)) :
        /\ Listed(p)[i].Key = key
        /\ \A h \in 1..(i - 1) : Listed(p)[h].Key # key
\* A second reconcile, right after a successful one.
Repeated(p) ==
    /\ Succeeded(p, "CheckVariables")
    /\ prev[p].op = "CheckVariables"
    /\ prev[p].err = NoError

Converged(p) ==
    /\ KeysOf(Remote(p)) = KeysOf(specVariables)
    /\ \A i \in 1..Len(Remote(p)) :
          ~Remote(p)[i].Sensitive =>
             /\ Remote(p)[i].Key \in KeysOf(specVariables)
             /\ Remote(p)[i].Value = specVariables[DesiredValue(Remote(p)[i].Key)].Value

C2_Idempotence ==
    \A p \in Procs : Repeated(p) => MutatingCalls(p) = <<>>

\* C3: a CheckVariables that completes deletes exactly the listed variables
\* whose key is not desired, each once, and creates exactly the desired
\* entries whose key is not listed, each once with its value; on the
\* example of section 8 the operations are delete stale, create
\* second_hello and update hello to rosemary.
C3_DiffClassification ==
    \A p \in Procs :
        Succeeded(p, "CheckVariables") =>
            LET deletes == CallsOf(p, {"Variables.Delete"})
                creates == CallsOf(p, {"Variables.Create"})
                stale == {i \in 1..Len(Listed(p)) :
                             Listed(p)[i].Key \notin KeysOf(specVariables)}
                missing == {j \in 1..Len(specVariables) :
                               specVariables[j].Key \notin KeysOf(Listed(p))}
            IN  /\ Len(deletes) = Cardinality(stale)
                /\ {c.id : c \in Range(deletes)} = {Listed(p)[i].ID : i \in stale}
                /\ Len(creates) = Cardinality(missing)
                /\ {<<c.key, c.value>> : c \in Range(creates)}
                     = {<<specVariables[j].Key, specVariables[j].Value>> : j \in missing}
                /\ (specVariables = ExampleDesired /\ proc[p].before = WithIDs(ExampleActual)
                      => {<<c.call, c.key, c.value>> : c \in Range(MutatingCalls(p))}
                           = {<<"Variables.Delete", "stale", "">>,
                              <<"Variables.Create", "second_hello", "to">>,
                              <<"Variables.Update", "hello", "rosemary">>})

C3_Witness ==
    \E p \in Procs :
        /\ Succeeded(p, "CheckVariables")
        /\ specVariables = ExampleDesired
        /\ proc[p].before = WithIDs(ExampleActual)
        /\ Len(MutatingCalls(p)) = 3

\* C4: a desired entry matched by key to a listed variable is updated if and
\* only if its value differs from the listed value; when the values are
\* equal no call is issued for that key, whatever the sensitive flags and
\* the category are.
C4_UpdateIffValueDiffers ==
    \A p \in Procs :
        Succeeded(p, "CheckVariables") =>
            \A j \in 1..Len(specVariables) :
                specVariables[j].Key \in KeysOf(Listed(p)) =>
                    LET listed == Listed(p)[FirstListed(p, specVariables[j].Key)]
                        updated == \E c \in Range(proc[p].calls) :
                                      /\ c.call = "Variables.Update"
                                      /\ c.id = listed.ID
                                      /\ c.value = specVariables[j].Value
                    IN  /\ updated <=> specVariables[j].Value # listed.Value
                        /\ specVariables[j].Value = listed.Value =>
                              \A c \in Range(MutatingCalls(p)) :
                                  c.key # specVariables[j].Key

C4_Witness ==
    \E p \in Procs :
        /\ Succeeded(p, "CheckVariables")
        /\ \E j \in 1..Len(specVariables) :
              /\ specVariables[j].Key \in KeysOf(Listed(p))
              /\ LET listed == Listed(p)[FirstListed(p, specVariables[j].Key)]
                 IN  /\ specVariables[j].Value = listed.Value
                     /\ specVariables[j].Sensitive # listed.Sensitive
                     /\ specVariables[j].EnvironmentVariable
                     /\ listed.Category = TerraformVariable
                     /\ MutatingCalls(p) = <<>>

\* C5: CheckWorkspace of a name that exists returns the existing id and
\* calls no create; CheckWorkspace of a name whose read fails with NotFound
\* calls create exactly once, with auto-apply enabled, and returns the id of
\* the workspace it created (or the error of that create).
C5_Resolver ==
    \A p \in Procs :
        Done(p, "CheckWorkspace") =>
            LET creates == CallsOf(p, {"Workspaces.Create"})
                name == proc[p].workspace
            IN  /\ proc[p].beforeWorkspace.ID # 0 /\ proc[p].err = NoError =>
                      /\ creates = <<>>
                      /\ proc[p].id = proc[p].beforeWorkspace.ID
                      /\ workspaces[name] = proc[p].beforeWorkspace
                /\ proc[p].calls[1].err = ErrResourceNotFound =>
                      /\ Len(creates) = 1
                      /\ creates[1].key = name
                      /\ creates[1].autoApply = TRUE
                      /\ IF creates[1].err = NoError
                         THEN /\ proc[p].err = NoError
                              /\ proc[p].id # 0
                              /\ proc[p].id = workspaces[name].ID
                              /\ workspaces[name].AutoApply = TRUE
                         ELSE /\ proc[p].err = creates[1].err
                              /\ proc[p].id = 0

C5_Witness ==
    \E p \in Procs :
        /\ Done(p, "CheckWorkspace")
        /\ proc[p].calls[1].err = ErrResourceNotFound
        /\ proc[p].err = NoError
        /\ proc[p].id = workspaces[proc[p].workspace].ID
        /\ proc[p].id # 0

\* C6: CheckWorkspace whose read fails with an error other than NotFound
\* calls no create, returns that error and no id, and leaves the workspaces
\* of the backend as they were.
C6_ResolverPropagates ==
    \A p \in Procs :
        Done(p, "CheckWorkspace") /\ proc[p].calls[1].err \in Failures =>
            /\ Len(proc[p].calls) = 1
            /\ proc[p].err = proc[p].calls[1].err
            /\ proc[p].id = 0
            /\ workspaces[proc[p].workspace] = proc[p].beforeWorkspace

C6_Witness ==
    \E p \in Procs :
        /\ Done(p, "CheckWorkspace")
        /\ proc[p].calls[1].err \in Failures
        /\ proc[p].beforeWorkspace.ID = 0
        /\ proc[p].err \in Failures

\* The creates of a CheckVariables are one per desired entry, in order.
CreatesEveryDesired(p) ==
    LET creates == CallsOf(p, {"Variables.Create"})
    IN  /\ Len(creates) = Len(specVariables)
        /\ \A j \in 1..Len(creates) :
              /\ creates[j].key = specVariables[j].Key
              /\ creates[j].value = specVariables[j].Value
              /\ creates[j].err = NoError

\* C7 as stated: CheckVariables of a workspace that is not found remotely,
\* its remote calls not failing otherwise, creates the workspace and goes
\* on with an empty list, issuing create for every desired entry.
C7_ReconcileResolves ==
    \A p \in Procs :
        /\ Done(p, "CheckVariables")
        /\ proc[p].beforeWorkspace.ID = 0
        /\ \A c \in Range(proc[p].calls) : c.err \notin Failures
        => /\ proc[p].err = NoError
           /\ workspaces[proc[p].workspace].ID # 0
           /\ CreatesEveryDesired(p)

\* C7, amended: CheckVariables reads the workspace as its first step and
\* does not resolve it: for a workspace that is not found remotely it
\* returns the read's error after that one call, the workspace still absent;
\* on a workspace without variables (such as one CheckWorkspace has just
\* created) a CheckVariables that succeeds lists no variable and issues
\* create for every desired entry.
C7_ReconcileReadsWorkspace ==
    \A p \in Procs :
        /\ Done(p, "CheckVariables") /\ proc[p].beforeWorkspace.ID = 0 =>
              /\ Len(proc[p].calls) = 1
              /\ proc[p].calls[1].call = "Workspaces.Read"
              /\ proc[p].err = proc[p].calls[1].err
              /\ proc[p].err \in {ErrResourceNotFound} \cup Failures
              /\ workspaces[proc[p].workspace].ID = 0
        /\ Succeeded(p, "CheckVariables") /\ proc[p].before = <<>> =>
              /\ Listed(p) = <<>>
              /\ CreatesEveryDesired(p)
              /\ MutatingCalls(p) = CallsOf(p, {"Variables.Create"})

C7_Witness ==
    \E p \in Procs :
        /\ Succeeded(p, "CheckVariables")
        /\ prev[p].op = "CheckWorkspace"
        /\ prev[p].created
        /\ Len(specVariables) = MaxDesired
        /\ Len(Remote(p)) = MaxDesired

\* C7: the other case of the amended claim.
C7_WitnessNotFound ==
    \E p \in Procs :
        /\ Done(p, "CheckVariables")
        /\ proc[p].beforeWorkspace.ID = 0
        /\ proc[p].err = ErrResourceNotFound

\* The effect of a successful variable call is in the remote state.
EffectRemains(p, c) ==
    CASE c.call = "Variables.Delete" ->
            \A i \in 1..Len(Remote(p)) : Remote(p)[i].ID # c.id
      [] c.call = "Variables.Create" ->
            \E i \in 1..Len(Remote(p)) :
                /\ Remote(p)[i].ID = c.id
                /\ Remote(p)[i].Key = c.key
                /\ Remote(p)[i].Value = c.value
      [] c.call = "Variables.Update" ->
            \E i \in 1..Len(Remote(p)) :
                /\ Remote(p)[i].ID = c.id
                /\ Remote(p)[i].Value = c.value
      [] OTHER -> TRUE

\* C8: in a CheckVariables, a create, update or delete call that fails is
\* the last remote call of the invocation, the invocation returns its error,
\* and the effect of every call that succeeded before it is in the remote
\* state.
C8_AbortWithoutRollback ==
    \A p \in Procs :
        proc[p].op = "CheckVariables" =>
            LET calls == proc[p].calls
            IN  \A k \in 1..Len(calls) :
                    calls[k].call \in VariableCalls /\ calls[k].err # NoError =>
                        /\ k = Len(calls)
                        /\ proc[p].pc = "done"
                        /\ proc[p].err = calls[k].err
                        /\ \A h \in 1..(k - 1) : calls[h].err = NoError
                        /\ \A h \in 1..(k - 1) : EffectRemains(p, calls[h])
                        /\ Len(Remote(p)) =
                              Len(proc[p].before)
                              + Len(CallsOf(p, {"Variables.Create"}))
                              - Len(CallsOf(p, {"Variables.Delete"}))
                              + (IF calls[k].call = "Variables.Update" THEN 0
                                 ELSE IF calls[k].call = "Variables.Create" THEN -1 ELSE 1)

C8_Witness ==
    \E p \in Procs :
        /\ Done(p, "CheckVariables")
        /\ proc[p].err \in Failures
        /\ Len(MutatingCalls(p)) >= 2
        /\ Remote(p) # proc[p].before

\* C10: within one CheckVariables, no delete-variable call is issued after
\* a create-variable or update-variable call.
C10_DeletesFirst ==
    \A p \in Procs :
        proc[p].op = "CheckVariables" =>
            \A a, b \in 1..Len(proc[p].calls) :
                a < b /\ proc[p].calls[b].call = "Variables.Delete" =>
                    proc[p].calls[a].call \notin {"Variables.Create", "Variables.Update"}

C10_Witness ==
    \E p \in Procs :
        /\ Succeeded(p, "CheckVariables")
        /\ Len(CallsOf(p, {"Variables.Delete"})) >= 1
        /\ Len(CallsOf(p, {"Variables.Create", "Variables.Update"})) >= 2

\* A CheckVariables that failed after its listing.
FailedPartWay(p) ==
    /\ Done(p, "CheckVariables")
    /\ proc[p].err # NoError
    /\ \E c \in Range(proc[p].calls) : c.call \in VariableCalls

\* The caller's invocation has issued no create, update or delete call and
\* has not failed, and the remote variables are the desired ones.
Quiescent(p) ==
    /\ proc[p].err = NoError
    /\ MutatingCalls(p) = <<>>
    /\ Converged(p)

\* C9: after a CheckVariables that failed part-way (on remote variables
\* with pairwise distinct keys, the case C1 covers), re-invoking it with the
\* same desired list leads to a point from which the remote variables are
\* the desired ones and no invocation issues a create, update or delete
\* call or fails.
C9_ConvergesAfterFailure ==
    \A p \in {1} :
        (FailedPartWay(p) /\ UniqueKeys(Listed(p))) ~> [](Quiescent(p))

\* The desired entries CheckVariables creates or updates, in list order:
\* those whose key is not listed, and those whose value differs from the
\* value of the first listed variable of their key.
Changing(p) ==
    SelectSeq([j \in 1..Len(specVariables) |-> j],
              LAMBDA j :
                  \/ specVariables[j].Key \notin KeysOf(Listed(p))
                  \/ specVariables[j].Value
                        # Listed(p)[FirstListed(p, specVariables[j].Key)].Value)

\* C11 as stated: within one CheckVariables, no update-variable call is
\* issued before a create-variable call, for every order of the desired
\* list.
C11_CreatesBeforeUpdates ==
    \A p \in Procs :
        proc[p].op = "CheckVariables" =>
            \A a, b \in 1..Len(proc[p].calls) :
                a < b /\ proc[p].calls[b].call = "Variables.Create" =>
                    proc[p].calls[a].call # "Variables.Update"

\* C11, amended: a CheckVariables that completes issues its create and
\* update calls in one pass over the desired list, one call for each entry
\* that is missing or differs, in the order of the list: a create for a
\* missing key, an update for a key whose value differs.
C11_ApplyInListOrder ==
    \A p \in Procs :
        Succeeded(p, "CheckVariables") =>
            LET applied == CallsOf(p, {"Variables.Create", "Variables.Update"})
            IN  /\ Len(applied) = Len(Changing(p))
                /\ \A n \in 1..Len(applied) :
                      LET v == specVariables[Changing(p)[n]]
                      IN  /\ applied[n].key = v.Key
                          /\ applied[n].value = v.Value
                          /\ applied[n].call =
                                IF v.Key \in KeysOf(Listed(p))
                                THEN "Variables.Update" ELSE "Variables.Create"

\* An update of the first desired entry is followed by a create of the
\* second.
C11_Witness ==
    \E p \in Procs :
        /\ Succeeded(p, "CheckVariables")
        /\ \E a, b \in 1..Len(proc[p].calls) :
              /\ a < b
              /\ proc[p].calls[a].call = "Variables.Update"
              /\ proc[p].calls[b].call = "Variables.Create"

\* The identifiers of a list of remote variables.
IDsOf(s) == {s[i].ID : i \in 1..Len(s)}

\* C12: in every state of a CheckVariables, running, completed or aborted,
\* every create call it has issued and every remote variable that was not
\* there before it has a desired key, and the remote keys are among the
\* keys present before the invocation and the desired keys.
C12_CreatedKeysDesired ==
    \A p \in Procs :
        proc[p].op = "CheckVariables" =>
            /\ \A c \in Range(CallsOf(p, {"Variables.Create"})) :
                  c.key \in KeysOf(specVariables)
            /\ \A i \in 1..Len(Remote(p)) :
                  Remote(p)[i].ID \notin IDsOf(proc[p].before)
                     => Remote(p)[i].Key \in KeysOf(specVariables)
            /\ KeysOf(Remote(p)) \subseteq
                  KeysOf(proc[p].before) \cup KeysOf(specVariables)

\* An aborted CheckVariables that had created a variable and left a stale
\* one behind it.
C12_Witness ==
    \E p \in Procs :
        /\ Done(p, "CheckVariables")
        /\ proc[p].err # NoError
        /\ \E c \in Range(CallsOf(p, {"Variables.Create"})) : c.err = NoError
        /\ \E i \in 1..Len(Remote(p)) :
              Remote(p)[i].ID \notin IDsOf(proc[p].before)
        /\ KeysOf(Remote(p)) # KeysOf(specVariables)

\* How many variables of a list have a key.
CountKey(s, key) == Cardinality({i \in 1..Len(s) : s[i].Key = key})

\* C14: CreateTerraformVariables, once it has read the workspace, issues
\* create calls only, one for each desired entry in list order with its key,
\* value and sensitive flag, whatever the workspace holds; it stops at the
\* first failing create and returns its error; when all creates succeed
\* every desired key is there once more than before, so on a workspace
\* without variables the remote keys are the desired keys, and a key that
\* was there is there twice.
C14_CreateAll ==
    \A p \in Procs :
        proc[p].op = "CreateTerraformVariables" =>
            LET calls == proc[p].calls
                creates == CallsOf(p, {"Variables.Create"})
            IN  /\ \A n \in 1..Len(calls) :
                      calls[n].call = IF n = 1 THEN "Workspaces.Read" ELSE "Variables.Create"
                /\ Len(creates) <= Len(specVariables)
                /\ \A n \in 1..Len(creates) :
                      /\ creates[n].key = specVariables[n].Key
                      /\ creates[n].value = specVariables[n].Value
                      /\ creates[n].sensitive = specVariables[n].Sensitive
                      /\ n < Len(creates) => creates[n].err = NoError
                /\ Done(p, "CreateTerraformVariables") /\ calls[1].err = NoError =>
                      /\ proc[p].err = NoError => Len(creates) = Len(specVariables)
                      /\ proc[p].err # NoError =>
                            /\ creates # <<>>
                            /\ creates[Len(creates)].err = proc[p].err
                /\ Succeeded(p, "CreateTerraformVariables") =>
                      /\ \A k \in KeysOf(specVariables) :
                            CountKey(Remote(p), k) = CountKey(proc[p].before, k) + 1
                      /\ proc[p].before = <<>> => KeysOf(Remote(p)) = KeysOf(specVariables)

\* All creates of two desired entries succeeded on a workspace that held
\* one of the keys, which it now holds twice.
C14_Witness ==
    \E p \in Procs :
        /\ Succeeded(p, "CreateTerraformVariables")
        /\ Len(specVariables) = 2
        /\ \E k \in KeysOf(specVariables) :
              /\ CountKey(proc[p].before, k) = 1
              /\ CountKey(Remote(p), k) = 2

\* C15: every variable CheckVariables or CreateTerraformVariables creates
\* for a desired entry has the category its environmentVariable flag
\* selects: env when the flag is set, terraform when it is not.
C15_CategoryByFlag ==
    \A p \in Procs :
        proc[p].op \in {"CheckVariables", "CreateTerraformVariables"} =>
            \A c \in Range(CallsOf(p, {"Variables.Create"})) :
                c.category =
                    IF specVariables[DesiredValue(c.key)].EnvironmentVariable
                    THEN EnvironmentVariable ELSE TerraformVariable

\* The desired list and the listed variables agree: they have the same
\* keys and every listed variable holds the desired value of its key.
Agree(p) ==
    /\ KeysOf(Listed(p)) = KeysOf(specVariables)
    /\ \A i \in 1..Len(Listed(p)) :
          Listed(p)[i].Value = specVariables[DesiredValue(Listed(p)[i].Key)].Value

\* The CheckVariables of p has listed the variables.
HasListed(p) ==
    /\ proc[p].op = "CheckVariables"
    /\ \E c \in Range(proc[p].calls) : c.call = "Variables.List" /\ c.err = NoError

\* C18: a CheckVariables whose listing agrees with the desired list on key
\* and value for every entry completes with success without a create,
\* update or delete call, and every remote variable keeps its identifier,
\* key, value, sensitive flag and category.
C18_NoOpStability ==
    \A p \in Procs :
        HasListed(p) /\ Agree(p) =>
            /\ Succeeded(p, "CheckVariables")
            /\ MutatingCalls(p) = <<>>
            /\ Remote(p) = proc[p].before

\* The listing agrees with a desired list of two entries, one of which is
\* held twice by the workspace.
C18_Witness ==
    \E p \in Procs :
        /\ HasListed(p) /\ Agree(p)
        /\ Done(p, "CheckVariables")
        /\ Len(specVariables) = 2
        /\ Len(Listed(p)) > 2

\* C20: a CheckVariables whose workspace read or variable listing fails,
\* and a CreateTerraformVariables whose workspace read fails, is over with
\* that error right after the failed call, which it issued once: it has
\* issued no create, update or delete call and the remote variables are
\* what they were.
C20_FailsAtStart ==
    \A p \in Procs :
        \A n \in 1..Len(proc[p].calls) :
            LET c == proc[p].calls[n]
            IN  /\ proc[p].op \in {"CheckVariables", "CreateTerraformVariables"}
                /\ c.call \in {"Workspaces.Read", "Variables.List"}
                /\ c.err # NoError
                => /\ proc[p].pc = "done"
                   /\ proc[p].err = c.err
                   /\ n = Len(proc[p].calls)
                   /\ Len(CallsOf(p, {c.call})) = 1
                   /\ MutatingCalls(p) = <<>>
                   /\ Remote(p) = proc[p].before

\* The listing of a CheckVariables failed on a workspace that holds a
\* variable to delete.
C20_Witness ==
    \E p \in Procs :
        /\ Done(p, "CheckVariables")
        /\ Len(proc[p].calls) = 2
        /\ proc[p].calls[2].call = "Variables.List"
        /\ proc[p].calls[2].err # NoError
        /\ \E i \in 1..Len(Remote(p)) : Remote(p)[i].Key \notin KeysOf(specVariables)

\* What a list of remote variables holds, without the identifiers.
Contents(s) ==
    [i \in 1..Len(s) |->
        [Key |-> s[i].Key, Value |-> s[i].Value,
         Sensitive |-> s[i].Sensitive, Category |-> s[i].Category]]

\* C19: for any desired list, a CheckVariables and a
\* CreateTerraformVariables that both succeed on workspaces without
\* variables leave remote variables that agree on key, value, sensitive
\* flag and category.
C19_PopulateEquivalent ==
    /\ Succeeded(1, "CheckVariables") /\ proc[1].before = <<>>
    /\ Succeeded(2, "CreateTerraformVariables") /\ proc[2].before = <<>>
    => Range(Contents(Remote(1))) = Range(Contents(Remote(2)))

\* C13: the listing of a CheckVariables holds every remote variable of the
\* workspace, also when there are more of them than PageSize, so a
\* CheckVariables that completes leaves no variable of an undesired key and
\* has created no variable whose key the workspace held.
C13_ListsEveryVariable ==
    \A p \in Procs :
        HasListed(p) =>
            /\ IDsOf(proc[p].before) \subseteq IDsOf(Listed(p))
            /\ Succeeded(p, "CheckVariables") =>
                  /\ KeysOf(Remote(p)) \subseteq KeysOf(specVariables)
                  /\ \A c \in Range(CallsOf(p, {"Variables.Create"})) :
                        c.key \notin KeysOf(proc[p].before)

\* What a CheckVariables that runs alone, without a failing call, leaves of
\* the variables `before` of its workspace: the variables of undesired
\* keys are gone, the first variable of a desired key holds the desired
\* value if the value the backend lists for it differed, and the desired
\* entries whose key was not there follow as non-sensitive Terraform
\* variables, in the order of the desired list.
Alone(before) ==
    LET kept == SelectSeq(before, LAMBDA v : v.Key \in KeysOf(specVariables))
        first(i) == \A h \in 1..(i - 1) : kept[h].Key # kept[i].Key
        desired(i) == specVariables[DesiredValue(kept[i].Key)].Value
        updated == [i \in 1..Len(kept) |->
                      IF first(i) /\ Redacted(kept[i]).Value # desired(i)
                      THEN [kept[i] EXCEPT !.Value = desired(i)] ELSE kept[i]]
        missing == SelectSeq(specVariables, LAMBDA v : v.Key \notin KeysOf(before))
        created == [j \in 1..Len(missing) |->
                      [Key |-> missing[j].Key, Value |-> missing[j].Value,
                       Sensitive |-> FALSE, Category |-> TerraformVariable]]
    IN  Contents(updated) \o created

\* C16: when two CheckVariables run at the same time on different
\* workspaces, under every interleaving of their remote calls each one
\* completes with the result it has alone, success, and leaves its
\* workspace with the variables it leaves when it runs alone; until it has
\* listed them the variables of its workspace are what they were.
C16_DifferentWorkspaces ==
    \A p \in Procs :
        /\ Done(p, "CheckVariables") =>
              /\ proc[p].err = NoError
              /\ Contents(Remote(p)) = Alone(proc[p].before)
        /\ proc[p].pc \in {"cv_read", "cv_list"} => Remote(p) = proc[p].before

\* Both invocations have completed, and the second created a variable
\* between two creates of the first.
C16_Witness ==
    /\ \A p \in Procs : Done(p, "CheckVariables")
    /\ \E a, b \in Range(CallsOf(1, {"Variables.Create"})) :
          \E c \in Range(CallsOf(2, {"Variables.Create"})) :
              a.id < c.id /\ c.id < b.id

\* Both invocations have issued a create for the same key.
BothCreate ==
    \E c \in Range(CallsOf(1, {"Variables.Create"})) :
        \E d \in Range(CallsOf(2, {"Variables.Create"})) : c.key = d.key

\* An invocation has issued an update or a delete for a variable the other
\* had deleted.
OnDeleted ==
    \E p \in Procs, q \in Procs :
        /\ p # q
        /\ \E c \in Range(CallsOf(p, {"Variables.Update", "Variables.Delete"})) :
              /\ c.err = ErrResourceNotFound
              /\ \E d \in Range(CallsOf(q, {"Variables.Delete"})) :
                    d.id = c.id /\ d.err = NoError

\* No invocation started while the other was under way.
Serialized == \A p \in Procs : ~proc[p].concurrent

\* C17: two CheckVariables on the same workspace are not kept apart, and
\* when they overlap both can issue a create for the same desired key, or
\* one a call for a variable the other has deleted; when one starts after
\* the other is over, no such state is reached, no call fails and each
\* leaves the variables it leaves alone.
C17_SameWorkspace ==
    Serialized =>
        /\ ~BothCreate
        /\ ~OnDeleted
        /\ \A p \in Procs :
              /\ \A c \in Range(proc[p].calls) : c.err = NoError
              /\ Done(p, "CheckVariables") /\ (\A q \in Procs : Idle(q)) =>
                    Contents(Remote(p)) = Alone(proc[p].before)

\* Both invocations listed the variables before either created the
\* missing key: both have created it, and the workspace holds it twice.
C17_Witness ==
    /\ BothCreate
    /\ \A p \in Procs : Succeeded(p, "CheckVariables")
    /\ \E k \in KeysOf(specVariables) :
          CountKey(Remote(1), k) = 2 /\ CountKey(proc[1].before, k) = 0

====
